---- MODULE Spec2Model ----
(***************************************************************************)
(* Model of the authenticated request pipeline of footbook-mobile:         *)
(*   - services/api.ts: the axios request interceptor (bearer injection)   *)
(*     and response interceptor (one-shot refresh on 401),                 *)
(*   - contexts/AuthContext.tsx (listed in README-AUTH.md): loadTokens,    *)
(*     login and logout of the AuthProvider,                               *)
(*   - app/auth/login.tsx and signup.tsx: onSubmit of the two screens,     *)
(*   - expo-secure-store as a key-value store whose operations may throw,  *)
(*   - the remote endpoints as nondeterministic responders.                *)
(* Every await of the code is one step of the model, so that concurrent    *)
(* requests and provider operations interleave exactly at the awaits.      *)
(***************************************************************************)
EXTENDS Integers, Sequences, FiniteSets, TLC

\* Number of concurrent requests issued through the api client.
NumReq == 2
\* Number of requests issued while the AuthProvider operates.
NumSessionReq == 1
\* Number of requests followed to completion while the app launches.
NumLiveReq == 1
\* Number of forms submitted on the login and signup screens.
NumSubmit == 1
\* Number of distinct token pairs (A1,R1) .. (An,Rn) the server can issue.
MaxTok == 2

Max(a, b) == IF a > b THEN a ELSE b
AllReqs == 1..Max(Max(NumReq, NumSubmit), Max(NumSessionReq, NumLiveReq))
Reqs == 1..NumReq
SessionReqs == 1..NumSessionReq
LiveReqs == 1..NumLiveReq
FormReqs == 1..NumSubmit
\* A stored token is 1..MaxTok (the string A_k or R_k); None is null/absent.
None == 0
Tokens == 1..MaxTok
\* Saturation value of the per-request call counters.
CountCap == 2

VARIABLES store, req, auth, screen

vars == <<store, req, auth, screen>>

----------------------------------------------------------------------------
(* Pure helpers translated from services/api.ts *)

\* `Bearer ${token}`
Bearer(t) == <<"Bearer", t>>

\* config.headers without an Authorization entry
NoHeader == <<>>

\* api.ts 18-20: if (token) config.headers.Authorization = `Bearer ${token}`
\* mutant: the stored token is attached only when no header is present yet
AttachTokenKeepExisting(hdr, token) ==
    IF token # None /\ hdr = NoHeader THEN Bearer(token) ELSE hdr

\* mutant: the header is dropped when the store has no access token
AttachTokenClearing(hdr, token) ==
    IF token # None THEN Bearer(token) ELSE NoHeader

AttachToken(hdr, token) ==
    IF token # None THEN Bearer(token) ELSE hdr

\* api.ts 38: error.response?.status === 401 && !originalRequest._retry
\* mutant: the _retry guard is missing
IsFirst401NoGuard(out, retry) == out = "e401"

\* mutant: every error status starts the refresh
IsFirst401AnyError(out, retry) == out # "ok" /\ ~retry

IsFirst401(out, retry) == out = "e401" /\ ~retry

\* api.ts 56: originalRequest.headers.Authorization = `Bearer ${accessToken}`
\* mutant: the replay keeps the header of the first send
ReplayHeaderStale(hdr, accessToken) == hdr

ReplayHeader(hdr, accessToken) == Bearer(accessToken)

\* api.ts 39: originalRequest._retry = true
\* mutant: the marker is never set
MarkRetriedMissing(retry) == retry

MarkRetried(retry) == TRUE

\* api.ts 68: Promise.reject(error) rejects with the error of the failed send
\* mutant: the refresh failure is surfaced instead of the original error
RejectWithRefreshError(err) == [kind |-> "eRefresh", att |-> 0]

RejectWith(err) == err

Min(a, b) == IF a < b THEN a ELSE b

\* api.ts 45-47: axios.post(`${API_BASE_URL}/auth/refresh`, { refreshToken })
\* is made with the global axios, which has no interceptors: the call has the
\* token in its body and no Authorization header.
NoRefreshRequest == [hdr |-> NoHeader, body |-> None]

\* mutant: the call is made with the api client, whose request interceptor
\* attaches the stored access token
RefreshRequestViaApi(refreshToken) ==
    [hdr |-> AttachToken(NoHeader, store.accessToken), body |-> refreshToken]

RefreshRequest(refreshToken) == [hdr |-> NoHeader, body |-> refreshToken]

----------------------------------------------------------------------------
(* State *)

\* A response or error of a send: kind is "ok", "e401" (status 401),
\* "eStatus" (another error status), "eNet" (no response) or "eStore" (an
\* error thrown by the store); att is the send it answers (1 = original,
\* 2 = replay, 0 = none).
Pending == [kind |-> "pending", att |-> 0]
StoreError == [kind |-> "eStore", att |-> 0]

\* The value of a getItemAsync that threw.
Threw == -1

\* The store with neither key present.
Empty == [accessToken |-> None, refreshToken |-> None]

InitReq ==
    [pc |-> "idle",          \* position of the call
     retry |-> FALSE,        \* originalRequest._retry
     hdr |-> NoHeader,       \* config.headers.Authorization
     att |-> 0,              \* 1 = original send, 2 = replay
     rt |-> None,            \* const refreshToken (api.ts 42)
     post |-> NoRefreshRequest, \* the refresh call issued (api.ts 45-47)
     new |-> None,           \* response.data of the refresh call (api.ts 49)
     resp |-> Pending,       \* response or error handed to the interceptor
     result |-> Pending,     \* what the caller's promise settled with
     nRefresh |-> 0,         \* refresh-endpoint calls made for this request
     nResend |-> 0,          \* replays made for this request
     seen |-> None,          \* outcome of the last accessToken read
     cause |-> "none",       \* how the refresh attempt went so far
     solo |-> FALSE]         \* nothing else ran during this call

InitAuth ==
    [pc |-> "mount",           \* AuthProvider rendered, effect not yet run
     isAuthenticated |-> FALSE,
     accessToken |-> None,
     refreshToken |-> None,
     loading |-> TRUE,
     arg |-> None,             \* tokens argument of login()
     la |-> None,              \* storedAccessToken of loadTokens
     last |-> "none",          \* how the last provider call ended
     solo |-> FALSE]           \* no request ran during the current call

\* LoginScreen / SignupScreen: const [loading, setLoading] = useState(false)
InitScreen ==
    [pc |-> "form",            \* position of onSubmit
     form |-> "none",          \* the screen whose form was submitted last
     loading |-> FALSE,
     n |-> 0,                  \* forms submitted; the n-th uses request n
     called |-> FALSE,         \* the context's login() was called for it
     empty |-> FALSE]          \* the store was empty when it was submitted

\* The store is empty on first launch or holds the pair of an earlier login.
Init ==
    /\ store \in {[accessToken |-> None, refreshToken |-> None],
                  [accessToken |-> 1, refreshToken |-> 1]}
    /\ req = [r \in AllReqs |-> InitReq]
    /\ auth = InitAuth
    /\ screen = InitScreen

Active(q) == req[q].pc \notin {"idle", "done"}
AuthQuiet == auth.pc \in {"mount", "idle"}

\* req after request r took a step to record nr; other running calls are
\* no longer alone.
Step(r, nr) ==
    [q \in AllReqs |-> IF q = r THEN nr
                       ELSE IF Active(q) THEN [req[q] EXCEPT !.solo = FALSE]
                       ELSE req[q]]

NotSolo == [q \in AllReqs |-> IF Active(q) THEN [req[q] EXCEPT !.solo = FALSE]
                              ELSE req[q]]

\* auth after a request took a step: a running provider call is no longer
\* alone.
Disturbed == [auth EXCEPT !.solo = FALSE]

\* The caller's promise settles with res; the config object is dropped.
Done(rq, res) ==
    [rq EXCEPT !.pc = "done", !.result = res, !.hdr = NoHeader, !.att = 0,
               !.rt = None, !.post = NoRefreshRequest, !.new = None,
               !.seen = None, !.solo = FALSE]

----------------------------------------------------------------------------
(* services/api.ts: one request through the api client *)

\* The caller invokes api(config); the request interceptor runs up to its
\* await of SecureStore.getItemAsync('accessToken').
Issued(r) ==
    Step(r, [req[r] EXCEPT !.pc = "reqGet", !.att = 1,
                !.solo = (\A q \in AllReqs \ {r} : ~Active(q)) /\ AuthQuiet])

Send(r) ==
    /\ req[r].pc = "idle"
    /\ req' = Issued(r)
    /\ UNCHANGED <<store, screen>> /\ auth' = Disturbed

\* api.ts 14-25: the await returns (ok) or throws (~ok, swallowed); the
\* request is handed to the transport.
\* mutant: the read error is not caught and rejects the request
RequestInterceptorRethrow(r, ok) ==
    /\ req[r].pc = "reqGet"
    /\ req' = Step(r,
          IF ok
          THEN [req[r] EXCEPT !.pc = "inflight",
                   !.hdr = AttachToken(req[r].hdr, store.accessToken),
                   !.seen = store.accessToken]
          ELSE Done(req[r], StoreError))
    /\ UNCHANGED <<store, screen>> /\ auth' = Disturbed

RequestInterceptor(r, ok) ==
    /\ req[r].pc = "reqGet"
    /\ LET token == IF ok THEN store.accessToken ELSE None
       IN req' = Step(r, [req[r] EXCEPT !.pc = "inflight",
                             !.hdr = AttachToken(req[r].hdr, token),
                             !.seen = IF ok THEN token ELSE Threw])
    /\ UNCHANGED <<store, screen>> /\ auth' = Disturbed

\* api.ts 32-39 and 67-68: the endpoint answers the send with out; the
\* response interceptor runs up to its first await.
Outcomes == {"ok", "e401", "eStatus", "eNet"}

\* mutant: the replay is awaited inside the try (return await api(...)), so
\* its failure is caught as a refresh failure
RespondReplayAwaited(r, out) ==
    /\ req[r].pc = "inflight"
    /\ LET e == [kind |-> out, att |-> req[r].att]
           rq == [req[r] EXCEPT !.resp = e, !.seen = None]
       IN req' = Step(r,
            IF out = "ok" THEN Done(rq, e)
            ELSE IF IsFirst401(out, rq.retry)
                 THEN [rq EXCEPT !.retry = MarkRetried(@), !.pc = "getRefresh"]
                 ELSE IF rq.att = 2
                      THEN [rq EXCEPT !.pc = "delAccess", !.cause = "storeFail"]
                      ELSE Done(rq, RejectWith(e)))
    /\ UNCHANGED <<store, screen>> /\ auth' = Disturbed

Respond(r, out) ==
    /\ req[r].pc = "inflight"
    /\ LET e == [kind |-> out, att |-> req[r].att]
           rq == [req[r] EXCEPT !.resp = e, !.seen = None]
       IN req' = Step(r,
            IF out = "ok" THEN Done(rq, e)
            ELSE IF IsFirst401(out, rq.retry)
                 THEN [rq EXCEPT !.retry = MarkRetried(@), !.pc = "getRefresh"]
                 ELSE Done(rq, RejectWith(e)))
    /\ UNCHANGED <<store, screen>> /\ auth' = Disturbed

\* api.ts 42-47: await SecureStore.getItemAsync('refreshToken'); with a
\* token the refresh call is issued.
\* mutant: the refresh waits while another request is refreshing
GetRefreshQueued(r, ok) ==
    /\ req[r].pc = "getRefresh"
    /\ \A q \in AllReqs \ {r} :
          req[q].pc \notin {"getRefresh", "refreshCall", "setAccess", "setRefresh"}
    /\ LET rq == req[r]
       IN req' = Step(r,
            IF ~ok THEN [rq EXCEPT !.pc = "delAccess", !.cause = "storeFail"]
            ELSE IF store.refreshToken # None
                 THEN [rq EXCEPT !.rt = store.refreshToken,
                                 !.post = RefreshRequest(store.refreshToken),
                                 !.pc = "refreshCall"]
                 ELSE Done([rq EXCEPT !.cause = "noToken"], RejectWith(rq.resp)))
    /\ UNCHANGED <<store, screen>> /\ auth' = Disturbed

GetRefresh(r, ok) ==
    /\ req[r].pc = "getRefresh"
    /\ LET rq == req[r]
       IN req' = Step(r,
            IF ~ok THEN [rq EXCEPT !.pc = "delAccess", !.cause = "storeFail"]
            ELSE IF store.refreshToken # None
                 THEN [rq EXCEPT !.rt = store.refreshToken,
                                 !.post = RefreshRequest(store.refreshToken),
                                 !.pc = "refreshCall"]
                 ELSE Done([rq EXCEPT !.cause = "noToken"], RejectWith(rq.resp)))
    /\ UNCHANGED <<store, screen>> /\ auth' = Disturbed

\* api.ts 45-49: await axios.post(`${API_BASE_URL}/auth/refresh`); pair = None
\* stands for an error status (401 included) or a network failure; either
\* way the await throws into catch (refreshError).
\* mutant: the call goes through the api client, whose response interceptor
\* answers its failure with a refresh of its own
RefreshCallIntercepted(r, pair) ==
    /\ req[r].pc = "refreshCall"
    /\ LET rq == [req[r] EXCEPT !.nRefresh = Min(@ + 1, CountCap)]
       IN req' = Step(r,
            IF pair # None
            THEN [rq EXCEPT !.new = pair, !.cause = "refreshOk", !.pc = "setAccess"]
            ELSE [rq EXCEPT !.cause = "endpointFail", !.pc = "getRefresh"])
    /\ UNCHANGED <<store, screen>> /\ auth' = Disturbed

RefreshCall(r, pair) ==
    /\ req[r].pc = "refreshCall"
    /\ LET rq == [req[r] EXCEPT !.nRefresh = Min(@ + 1, CountCap)]
       IN req' = Step(r,
            IF pair # None
            THEN [rq EXCEPT !.new = pair, !.cause = "refreshOk", !.pc = "setAccess"]
            ELSE [rq EXCEPT !.cause = "endpointFail", !.pc = "delAccess"])
    /\ UNCHANGED <<store, screen>> /\ auth' = Disturbed

\* api.ts 52: await SecureStore.setItemAsync('accessToken', accessToken)
SetAccess(r, ok) ==
    /\ req[r].pc = "setAccess"
    /\ IF ok
       THEN /\ store' = [store EXCEPT !.accessToken = req[r].new]
            /\ req' = Step(r, [req[r] EXCEPT !.pc = "setRefresh"])
       ELSE /\ store' = store
            /\ req' = Step(r, [req[r] EXCEPT !.pc = "delAccess", !.new = None,
                                  !.cause = "storeFail"])
    /\ auth' = Disturbed /\ UNCHANGED screen

\* api.ts 53-57: await SecureStore.setItemAsync('refreshToken', ...), then the
\* header is set and api(originalRequest) re-enters the request interceptor.
\* mutant: the write is not awaited, the replay goes out even when it fails
SetRefreshUnawaited(r, ok) ==
    /\ req[r].pc = "setRefresh"
    /\ store' = IF ok THEN [store EXCEPT !.refreshToken = req[r].new] ELSE store
    /\ req' = Step(r, [req[r] EXCEPT
                          !.hdr = ReplayHeader(@, req[r].new),
                          !.nResend = Min(@ + 1, CountCap),
                          !.att = 2,
                          !.pc = "reqGet"])
    /\ auth' = Disturbed /\ UNCHANGED screen

SetRefresh(r, ok) ==
    /\ req[r].pc = "setRefresh"
    /\ IF ok
       THEN /\ store' = [store EXCEPT !.refreshToken = req[r].new]
            /\ req' = Step(r, [req[r] EXCEPT
                                  !.hdr = ReplayHeader(@, req[r].new),
                                  !.nResend = Min(@ + 1, CountCap),
                                  !.att = 2,
                                  !.pc = "reqGet"])
       ELSE /\ store' = store
            /\ req' = Step(r, [req[r] EXCEPT !.pc = "delAccess", !.new = None,
                                  !.cause = "storeFail"])
    /\ auth' = Disturbed /\ UNCHANGED screen

\* api.ts 59-61: catch (refreshError): await deleteItemAsync('accessToken');
\* a throw inside the catch block rejects the handler with that error.
\* mutant: the token is deleted only while the store still holds the refresh
\* token this request read
DelAccessIfCurrent(r, ok) ==
    /\ req[r].pc = "delAccess"
    /\ IF ok
       THEN /\ store' = IF store.refreshToken = req[r].rt
                        THEN [store EXCEPT !.accessToken = None] ELSE store
            /\ req' = Step(r, [req[r] EXCEPT !.pc = "delRefresh"])
       ELSE /\ store' = store
            /\ req' = Step(r, Done(req[r], StoreError))
    /\ auth' = Disturbed /\ UNCHANGED screen

DelAccess(r, ok) ==
    /\ req[r].pc = "delAccess"
    /\ IF ok
       THEN /\ store' = [store EXCEPT !.accessToken = None]
            /\ req' = Step(r, [req[r] EXCEPT !.pc = "delRefresh"])
       ELSE /\ store' = store
            /\ req' = Step(r, Done(req[r], StoreError))
    /\ auth' = Disturbed /\ UNCHANGED screen

\* api.ts 62-68: await deleteItemAsync('refreshToken'); Promise.reject(error)
DelRefresh(r, ok) ==
    /\ req[r].pc = "delRefresh"
    /\ IF ok
       THEN /\ store' = [store EXCEPT !.refreshToken = None]
            /\ req' = Step(r, Done(req[r], RejectWith(req[r].resp)))
       ELSE /\ store' = store
            /\ req' = Step(r, Done(req[r], StoreError))
    /\ auth' = Disturbed /\ UNCHANGED screen

----------------------------------------------------------------------------
(* contexts/AuthContext.tsx (README-AUTH.md 201-265): AuthProvider *)

\* useEffect(() => { loadTokens(); }, []) runs after the first render
Mount ==
    /\ auth.pc = "mount"
    /\ auth' = [auth EXCEPT !.pc = "loadGetA"]
    /\ req' = NotSolo
    /\ UNCHANGED <<store, screen>>

\* loadTokens: await getItemAsync('accessToken')
LoadGetAccess(ok) ==
    /\ auth.pc = "loadGetA"
    /\ auth' = IF ok THEN [auth EXCEPT !.la = store.accessToken, !.pc = "loadGetR"]
               ELSE [auth EXCEPT !.loading = FALSE, !.pc = "idle",
                                 !.last = "loadFail"]
    /\ req' = NotSolo
    /\ UNCHANGED <<store, screen>>

\* loadTokens: await getItemAsync('refreshToken'); setState; finally
\* mutant: the session is restored from the access token alone
LoadGetRefreshAccessOnly(ok) ==
    /\ auth.pc = "loadGetR"
    /\ auth' = IF ok /\ auth.la # None
               THEN [auth EXCEPT !.accessToken = auth.la,
                                 !.refreshToken = store.refreshToken,
                                 !.isAuthenticated = TRUE,
                                 !.loading = FALSE, !.la = None, !.pc = "idle",
                                 !.last = "loadOk"]
               ELSE [auth EXCEPT !.loading = FALSE, !.la = None, !.pc = "idle",
                                 !.last = IF ok THEN "loadOk" ELSE "loadFail"]
    /\ req' = NotSolo
    /\ UNCHANGED <<store, screen>>

LoadGetRefresh(ok) ==
    /\ auth.pc = "loadGetR"
    /\ auth' = IF ok /\ auth.la # None /\ store.refreshToken # None
               THEN [auth EXCEPT !.accessToken = auth.la,
                                 !.refreshToken = store.refreshToken,
                                 !.isAuthenticated = TRUE,
                                 !.loading = FALSE, !.la = None, !.pc = "idle",
                                 !.last = "loadOk"]
               ELSE [auth EXCEPT !.loading = FALSE, !.la = None, !.pc = "idle",
                                 !.last = IF ok THEN "loadOk" ELSE "loadFail"]
    /\ req' = NotSolo
    /\ UNCHANGED <<store, screen>>

\* login(tokens) is called with the pair k of a login or signup response.
LoggingIn(k) ==
    [auth EXCEPT !.arg = k, !.pc = "loginSetA", !.last = "none",
                 !.solo = \A q \in AllReqs : ~Active(q)]

LoginCall(k) ==
    /\ auth.pc = "idle"
    /\ auth' = LoggingIn(k)
    /\ req' = NotSolo
    /\ UNCHANGED <<store, screen>>

\* login: await setItemAsync('accessToken', tokens.accessToken)
LoginSetAccess(ok) ==
    /\ auth.pc = "loginSetA"
    /\ IF ok
       THEN /\ store' = [store EXCEPT !.accessToken = auth.arg]
            /\ auth' = [auth EXCEPT !.pc = "loginSetR"]
       ELSE /\ store' = store
            /\ auth' = [auth EXCEPT !.arg = None, !.pc = "idle",
                                    !.last = "loginThrew", !.solo = FALSE]
    /\ req' = NotSolo /\ UNCHANGED screen

\* login: await setItemAsync('refreshToken', tokens.refreshToken); setState
\* mutant: the state is set before the write is known to have succeeded
LoginSetRefreshOptimistic(ok) ==
    /\ auth.pc = "loginSetR"
    /\ store' = IF ok THEN [store EXCEPT !.refreshToken = auth.arg] ELSE store
    /\ auth' = [auth EXCEPT !.accessToken = auth.arg,
                            !.refreshToken = auth.arg,
                            !.isAuthenticated = TRUE,
                            !.arg = None, !.pc = "idle",
                            !.last = IF ok THEN "loginOk" ELSE "loginThrew",
                            !.solo = FALSE]
    /\ req' = NotSolo /\ UNCHANGED screen

LoginSetRefresh(ok) ==
    /\ auth.pc = "loginSetR"
    /\ IF ok
       THEN /\ store' = [store EXCEPT !.refreshToken = auth.arg]
            /\ auth' = [auth EXCEPT !.accessToken = auth.arg,
                                    !.refreshToken = auth.arg,
                                    !.isAuthenticated = TRUE,
                                    !.arg = None, !.pc = "idle",
                                    !.last = "loginOk", !.solo = FALSE]
       ELSE /\ store' = store
            /\ auth' = [auth EXCEPT !.arg = None, !.pc = "idle",
                                    !.last = "loginThrew", !.solo = FALSE]
    /\ req' = NotSolo /\ UNCHANGED screen

\* logout() is called
\* mutant: logout aborts the requests that are in progress
LogoutCallCancelling ==
    /\ auth.pc = "idle"
    /\ auth' = [auth EXCEPT !.pc = "logoutDelA", !.last = "none",
                            !.solo = \A q \in AllReqs : ~Active(q)]
    /\ req' = [q \in AllReqs |->
                 IF Active(q)
                 THEN Done(req[q], [kind |-> "eNet", att |-> req[q].att])
                 ELSE req[q]]
    /\ UNCHANGED <<store, screen>>

LogoutCall ==
    /\ auth.pc = "idle"
    /\ auth' = [auth EXCEPT !.pc = "logoutDelA", !.last = "none",
                            !.solo = \A q \in AllReqs : ~Active(q)]
    /\ req' = NotSolo
    /\ UNCHANGED <<store, screen>>

\* logout: await deleteItemAsync('accessToken')
LogoutDelAccess(ok) ==
    /\ auth.pc = "logoutDelA"
    /\ IF ok
       THEN /\ store' = [store EXCEPT !.accessToken = None]
            /\ auth' = [auth EXCEPT !.pc = "logoutDelR"]
       ELSE /\ store' = store
            /\ auth' = [auth EXCEPT !.pc = "idle", !.last = "logoutFail",
                                    !.solo = FALSE]
    /\ req' = NotSolo /\ UNCHANGED screen

\* logout: await deleteItemAsync('refreshToken'); setState
LogoutDelRefresh(ok) ==
    /\ auth.pc = "logoutDelR"
    /\ IF ok
       THEN /\ store' = [store EXCEPT !.refreshToken = None]
            /\ auth' = [auth EXCEPT !.accessToken = None,
                                    !.refreshToken = None,
                                    !.isAuthenticated = FALSE,
                                    !.pc = "idle", !.last = "logoutOk",
                                    !.solo = FALSE]
       ELSE /\ store' = store
            /\ auth' = [auth EXCEPT !.pc = "idle", !.last = "logoutFail",
                                    !.solo = FALSE]
    /\ req' = NotSolo /\ UNCHANGED screen

----------------------------------------------------------------------------
(* app/auth/login.tsx 45-62 and app/auth/signup.tsx 89-121: onSubmit *)

Forms == {"login", "signup"}

\* The auth screens are shown once launch found no session (README-AUTH.md,
\* Authentication Flow). onSubmit: setLoading(true), then authService.login
\* or authService.signup posts through the api client.
Submit(form) ==
    /\ screen.pc = "form" /\ screen.n < NumSubmit
    /\ ~auth.loading /\ ~auth.isAuthenticated
    /\ req[screen.n + 1].pc = "idle"
    /\ req' = Issued(screen.n + 1)
    /\ UNCHANGED store /\ auth' = Disturbed
    /\ screen' = [screen EXCEPT !.pc = "service", !.form = form,
                                !.loading = TRUE, !.n = @ + 1,
                                !.called = FALSE, !.empty = (store = Empty)]

\* The service call resolved with the pair k: await login(response)
ServiceResolved(k) ==
    /\ screen.pc = "service"
    /\ req[screen.n].pc = "done" /\ req[screen.n].result.kind = "ok"
    /\ auth.pc = "idle"
    /\ auth' = LoggingIn(k)
    /\ req' = NotSolo
    /\ UNCHANGED store
    /\ screen' = [screen EXCEPT !.pc = "login", !.called = TRUE]

\* The service call was rejected: catch shows the alert, finally
\* setLoading(false)
\* mutant: setLoading(false) is in the try block instead of finally
ServiceRejectedNoFinally ==
    /\ screen.pc = "service"
    /\ req[screen.n].pc = "done" /\ req[screen.n].result.kind # "ok"
    /\ screen' = [screen EXCEPT !.pc = "form"]
    /\ UNCHANGED <<store, req, auth>>

ServiceRejected ==
    /\ screen.pc = "service"
    /\ req[screen.n].pc = "done" /\ req[screen.n].result.kind # "ok"
    /\ screen' = [screen EXCEPT !.pc = "form", !.loading = FALSE]
    /\ UNCHANGED <<store, req, auth>>

\* login() returned or threw (alert): finally setLoading(false)
LoginSettled ==
    /\ screen.pc = "login" /\ auth.pc = "idle"
    /\ screen' = [screen EXCEPT !.pc = "form", !.loading = FALSE]
    /\ UNCHANGED <<store, req, auth>>

----------------------------------------------------------------------------

\* One step of request r of the api client.
Pipeline(r) ==
    \/ Send(r)
    \/ \E ok \in BOOLEAN : RequestInterceptor(r, ok)
    \/ \E out \in Outcomes : Respond(r, out)
    \/ \E ok \in BOOLEAN : GetRefresh(r, ok)
    \/ \E pair \in {None} \cup Tokens : RefreshCall(r, pair)
    \/ \E ok \in BOOLEAN : SetAccess(r, ok)
    \/ \E ok \in BOOLEAN : SetRefresh(r, ok)
    \/ \E ok \in BOOLEAN : DelAccess(r, ok)
    \/ \E ok \in BOOLEAN : DelRefresh(r, ok)

\* One step of the AuthProvider.
Provider ==
    \/ Mount
    \/ \E ok \in BOOLEAN : LoadGetAccess(ok)
    \/ \E ok \in BOOLEAN : LoadGetRefresh(ok)
    \/ \E k \in Tokens : LoginCall(k)
    \/ \E ok \in BOOLEAN : LoginSetAccess(ok)
    \/ \E ok \in BOOLEAN : LoginSetRefresh(ok)
    \/ LogoutCall
    \/ \E ok \in BOOLEAN : LogoutDelAccess(ok)
    \/ \E ok \in BOOLEAN : LogoutDelRefresh(ok)

\* The api client alone: NumReq concurrent requests.
Next == \E r \in Reqs : Pipeline(r)

Spec == Init /\ [][Next]_vars

\* The api client together with the AuthProvider.
NextSession ==
    \/ \E r \in SessionReqs : Pipeline(r)
    \/ Provider

SpecSession == Init /\ [][NextSession]_vars

\* The steps of request r that wait for the store or for an endpoint.
Settle(r) ==
    \/ \E ok \in BOOLEAN : RequestInterceptor(r, ok)
    \/ \E out \in Outcomes : Respond(r, out)
    \/ \E ok \in BOOLEAN : GetRefresh(r, ok)
    \/ \E pair \in {None} \cup Tokens : RefreshCall(r, pair)
    \/ \E ok \in BOOLEAN : SetAccess(r, ok)
    \/ \E ok \in BOOLEAN : SetRefresh(r, ok)
    \/ \E ok \in BOOLEAN : DelAccess(r, ok)
    \/ \E ok \in BOOLEAN : DelRefresh(r, ok)

\* Every endpoint call and every store operation eventually returns or
\* fails.
\* The api client while the AuthProvider bootstraps.
NextLaunch ==
    \/ \E r \in LiveReqs : Pipeline(r)
    \/ Mount
    \/ \E ok \in BOOLEAN : LoadGetAccess(ok)
    \/ \E ok \in BOOLEAN : LoadGetRefresh(ok)

SpecLaunchFair ==
    Init /\ [][NextLaunch]_vars /\ \A r \in LiveReqs : WF_vars(Settle(r))

\* The auth screens over the api client and the AuthProvider: launch, then
\* the forms submitted on the login or signup screen.
NextScreen ==
    \/ Mount
    \/ \E ok \in BOOLEAN : LoadGetAccess(ok)
    \/ \E ok \in BOOLEAN : LoadGetRefresh(ok)
    \/ \E form \in Forms : Submit(form)
    \/ \E r \in FormReqs : Settle(r)
    \/ \E k \in Tokens : ServiceResolved(k)
    \/ ServiceRejected
    \/ \E ok \in BOOLEAN : LoginSetAccess(ok)
    \/ \E ok \in BOOLEAN : LoginSetRefresh(ok)
    \/ LoginSettled

SpecScreen == Init /\ [][NextScreen]_vars

\* The effect runs after the first render and every store read of
\* loadTokens eventually returns or throws.
BootFairness ==
    /\ WF_vars(Mount)
    /\ WF_vars(\E ok \in BOOLEAN : LoadGetAccess(ok))
    /\ WF_vars(\E ok \in BOOLEAN : LoadGetRefresh(ok))

SpecSessionFair == SpecSession /\ BootFairness

----------------------------------------------------------------------------
(* Properties *)

PairOf(k) == [accessToken |-> k, refreshToken |-> k]
Orig401 == [kind |-> "e401", att |-> 1]
Resend401 == [kind |-> "e401", att |-> 2]

\* The step in which the caller's promise of request r settles.
Completes(r) == req[r].pc # "done" /\ req'[r].pc = "done"

\* Positions of the response interceptor after the first 401.
RefreshPcs == {"getRefresh", "refreshCall", "setAccess", "setRefresh",
               "delAccess", "delRefresh"}

\* C1: every request makes at most one refresh-endpoint call and at most one
\* replay; _retry is already set while the refresh token is being read and
\* is never cleared, and a response to a retried request ends the call.
C1_SingleRetry ==
    /\ [](\A r \in AllReqs :
            /\ req[r].nRefresh <= 1
            /\ req[r].nResend <= 1
            /\ (req[r].pc \in RefreshPcs \/ req[r].att = 2) => req[r].retry)
    /\ [][\A r \in AllReqs :
            /\ req[r].retry => req'[r].retry
            /\ (req[r].retry /\ req[r].pc = "inflight")
                   => req'[r].pc \in {"inflight", "done"}]_vars

\* C1 witness: a replay was answered with 401 and the call ended after one
\* refresh call and one replay.
C1_Witness ==
    \E r \in AllReqs :
        /\ req[r].pc = "done" /\ req[r].result = Resend401
        /\ req[r].retry /\ req[r].nRefresh = 1 /\ req[r].nResend = 1

\* C2: a request running alone whose refresh returned the pair k and whose
\* store writes succeeded completes only through its replay: exactly one
\* replay, sent with Bearer A_k, the caller gets the replay's own result and
\* the store holds exactly (A_k, R_k) when the call ends.
C2_RefreshSuccess ==
    /\ [](\A r \in AllReqs :
            req[r].cause = "refreshOk" =>
                \/ req[r].pc \in {"setAccess", "setRefresh", "reqGet", "inflight"}
                \/ req[r].pc = "done" /\ req[r].result.att = 2)
    /\ [][\A r \in AllReqs :
            (Completes(r) /\ req[r].solo /\ req[r].cause = "refreshOk") =>
                /\ req[r].pc = "inflight" /\ req[r].att = 2
                /\ req'[r].nResend = 1 /\ req'[r].nRefresh = 1
                /\ req[r].hdr = Bearer(req[r].new)
                /\ req'[r].result = req'[r].resp
                /\ req'[r].result.att = 2
                /\ store' = PairOf(req[r].new)]_vars

\* C2 witness: alone, refresh called with R1 returned (A2, R2), the replay is
\* in flight with Bearer A2 and the store holds (A2, R2).
C2_Witness ==
    \E r \in AllReqs :
        /\ req[r].pc = "inflight" /\ req[r].att = 2 /\ req[r].solo
        /\ req[r].cause = "refreshOk" /\ req[r].rt = 1 /\ req[r].new = 2
        /\ req[r].seen = 2 /\ req[r].hdr = Bearer(2) /\ store = PairOf(2)

\* C3: a request running alone whose refresh call failed ends with no
\* replay, an empty store and the original 401.
C3_RefreshFailureClears ==
    [][\A r \in AllReqs :
        (Completes(r) /\ req[r].solo /\ req[r].cause = "endpointFail") =>
            /\ req'[r].nResend = 0
            /\ store' = Empty
            /\ req'[r].result = Orig401]_vars

\* C4: a first 401 with no stored refresh token ends with no refresh call,
\* no replay, an empty store and the original 401.
C4_MissingRefreshTokenClears ==
    [][\A r \in AllReqs :
        (Completes(r) /\ req'[r].cause = "noToken") =>
            /\ req'[r].nRefresh = 0 /\ req'[r].nResend = 0
            /\ store' = Empty
            /\ req'[r].result = Orig401]_vars

\* C5: once the replay has been answered with 401 the call is over: the
\* caller has that 401, and there was one refresh call and one replay.
C5_Resend401Final ==
    \A r \in AllReqs :
        req[r].resp = Resend401 =>
            /\ req[r].pc = "done"
            /\ req[r].result = Resend401
            /\ req[r].nRefresh = 1 /\ req[r].nResend = 1

\* C5 witness: a call ended by the 401 of its replay.
C5_Witness ==
    \E r \in AllReqs :
        /\ req[r].pc = "done" /\ req[r].resp = Resend401
        /\ req[r].cause = "refreshOk" /\ req[r].result = Resend401

\* No request and no provider operation is in progress.
Quiescent ==
    /\ \A r \in AllReqs : ~Active(r)
    /\ AuthQuiet

\* C6: when nothing is in progress the store holds both tokens or neither.
C6_PairNeverPartial ==
    Quiescent => ((store.accessToken = None) <=> (store.refreshToken = None))

\* C7: whenever the refresh exchange of a request running alone fails
\* (endpoint or store), the store is cleared and the caller gets the
\* original 401.
C7_AnyRefreshFailureClears ==
    [][\A r \in AllReqs :
        (Completes(r) /\ req[r].solo
            /\ req[r].cause \in {"endpointFail", "storeFail"}) =>
            /\ store' = Empty
            /\ req'[r].result = Orig401]_vars

\* C8: a request (original or replay) whose interceptor read the access
\* token T from the store is sent with Authorization = Bearer T.
C8_BearerIsStoredToken ==
    \A r \in AllReqs :
        (req[r].pc = "inflight" /\ req[r].seen \in Tokens) =>
            req[r].hdr = Bearer(req[r].seen)

\* C8 witness: a replay in flight carries the token found in the store, which
\* another request had replaced after this one's refresh.
C8_Witness ==
    \E r \in AllReqs :
        /\ req[r].pc = "inflight" /\ req[r].att = 2
        /\ req[r].seen \in Tokens /\ req[r].seen # req[r].new
        /\ req[r].hdr = Bearer(req[r].seen)

\* C9 as claimed: any request sent while the store holds no access token
\* carries no Authorization header.
C9_NoTokenNoHeader ==
    \A r \in AllReqs :
        (req[r].pc = "inflight" /\ req[r].seen = None) => req[r].hdr = NoHeader

\* C9 amended: with no access token in the store, an original send carries
\* no Authorization header and a replay carries the header the response
\* interceptor set, Bearer of the access token its refresh returned.
C9_NoTokenKeepsHeader ==
    \A r \in AllReqs :
        (req[r].pc = "inflight" /\ req[r].seen = None) =>
            /\ req[r].att = 1 => req[r].hdr = NoHeader
            /\ req[r].att = 2 => req[r].hdr = Bearer(req[r].new)

\* C9 witness: a replay in flight whose interceptor found no access token.
C9_Witness ==
    \E r \in AllReqs :
        /\ req[r].pc = "inflight" /\ req[r].att = 2 /\ req[r].seen = None
        /\ store.accessToken = None /\ req[r].hdr = Bearer(req[r].new)

\* C10: a response that is not a first 401 settles the caller's promise
\* with that very response and changes neither the store nor the counts of
\* refresh calls and replays.
C10_PassThrough ==
    [][\A r \in AllReqs :
        (/\ req[r].pc = "inflight" /\ req'[r].pc # "inflight"
         /\ ~(req'[r].resp.kind = "e401" /\ ~req[r].retry)) =>
            /\ req'[r].pc = "done"
            /\ req'[r].resp.att = req[r].att
            /\ req'[r].result = req'[r].resp
            /\ store' = store
            /\ req'[r].nRefresh = req[r].nRefresh
            /\ req'[r].nResend = req[r].nResend]_vars

\* C10 witness: a call ended by a non-401 error status of its first send,
\* with no refresh call, no replay and the store as it was at launch.
C10_Witness ==
    \E r \in AllReqs :
        /\ req[r].pc = "done" /\ req[r].result = [kind |-> "eStatus", att |-> 1]
        /\ ~req[r].retry /\ req[r].nRefresh = 0 /\ req[r].nResend = 0
        /\ store \in {Empty, PairOf(1)}

\* C11: refreshes are neither coalesced nor queued: whatever the other
\* requests are doing, a request that received its first 401 can read the
\* refresh token, call the refresh endpoint with the token it read and
\* write both tokens; every request that writes has made its own call.
C11_NoCoalescing ==
    /\ [](\A r \in AllReqs :
            /\ req[r].pc = "getRefresh" => ENABLED GetRefresh(r, TRUE)
            /\ req[r].pc = "refreshCall" =>
                   /\ req[r].rt \in Tokens
                   /\ \A p \in Tokens : ENABLED RefreshCall(r, p)
            /\ req[r].pc = "setAccess" =>
                   req[r].nRefresh = 1 /\ ENABLED SetAccess(r, TRUE)
            /\ req[r].pc = "setRefresh" =>
                   req[r].nRefresh = 1 /\ ENABLED SetRefresh(r, TRUE))
    /\ [][\A r \in AllReqs :
            /\ (req[r].pc = "getRefresh" /\ req'[r].pc = "refreshCall")
                   => req'[r].rt = store.refreshToken
            /\ (req[r].pc = "refreshCall" /\ req'[r].pc # "refreshCall")
                   => req'[r].nRefresh = req[r].nRefresh + 1]_vars

\* C11 witness: two requests received 401, each made its own refresh call,
\* got a different pair, and both have written their access token.
C11_Witness ==
    \E r1, r2 \in AllReqs :
        /\ r1 # r2
        /\ req[r1].pc = "setRefresh" /\ req[r2].pc = "setRefresh"
        /\ req[r1].nRefresh = 1 /\ req[r2].nRefresh = 1
        /\ req[r1].new # req[r2].new

\* Every request of the api client has ended through its replay, so each
\* had a successful refresh and wrote both of its tokens.
AllRefreshedAndDone ==
    \A r \in Reqs : req[r].pc = "done" /\ req[r].result.att = 2

\* C12: when all concurrent requests refreshed successfully and have
\* completed, the stored accessToken and refreshToken come from the same
\* refresh response.
C12_LastWriterWinsPair ==
    AllRefreshedAndDone => store.accessToken = store.refreshToken

\* C13: isAuthenticated follows the store; in the case the claim names, after
\* bootstrapping and with nothing in progress, once the response interceptor
\* has emptied the store after a failed refresh, isAuthenticated is false.
C13_ClearedMeansLoggedOut ==
    (/\ Quiescent /\ ~auth.loading /\ store = Empty
     /\ \E r \in AllReqs : req[r].pc = "done" /\ req[r].cause = "endpointFail"
                           /\ req[r].result = Orig401)
        => ~auth.isAuthenticated

\* C14: when logout() returns with no request of the api client running,
\* the store holds neither token, isAuthenticated is false and the
\* provider's accessToken and refreshToken are null.
C14_LogoutClears ==
    [][(/\ auth.pc \in {"logoutDelA", "logoutDelR"} /\ auth'.pc = "idle"
        /\ auth.solo) =>
            /\ store' = Empty
            /\ ~auth'.isAuthenticated
            /\ auth'.accessToken = None /\ auth'.refreshToken = None]_vars

\* The step in which login() settles.
LoginReturns == auth.pc \in {"loginSetA", "loginSetR"} /\ auth'.pc = "idle"

C16_Bootstrap ==
    /\ [](auth.loading <=> auth.pc \in {"mount", "loadGetA", "loadGetR"})
    /\ [][(auth.loading /\ ~auth'.loading) =>
            (auth'.isAuthenticated <=>
                (/\ auth'.last = "loadOk"
                 /\ auth.pc = "loadGetR"
                 /\ auth.la # None
                 /\ store.refreshToken # None))]_vars
    /\ <>(~auth.loading)

\* C16 witness: bootstrapping ended authenticated from a stored pair.
C16_Witness ==
    /\ ~auth.loading /\ auth.last = "loadOk" /\ auth.isAuthenticated
    /\ auth.accessToken = 1 /\ auth.refreshToken = 1

\* C17: a replay is issued only from the successful refreshToken write,
\* which follows the successful accessToken write, which follows the
\* successful refresh call; a request whose store operation failed never
\* replays.
C17_ReplayAfterPersist ==
    /\ [](\A r \in AllReqs :
            /\ req[r].att = 2 => req[r].cause = "refreshOk"
            /\ req[r].nResend > 0 => req[r].cause = "refreshOk"
            /\ req[r].pc \in {"setAccess", "setRefresh"} =>
                   (req[r].cause = "refreshOk" /\ req[r].new \in Tokens
                    /\ req[r].nResend = 0))
    /\ [][\A r \in AllReqs :
            /\ (req[r].pc # "setAccess" /\ req'[r].pc = "setAccess")
                   => req[r].pc = "refreshCall"
            /\ (req[r].pc # "setRefresh" /\ req'[r].pc = "setRefresh")
                   => (req[r].pc = "setAccess"
                       /\ store'.accessToken = req[r].new)
            /\ req'[r].nResend # req[r].nResend
                   => (/\ req[r].pc = "setRefresh"
                       /\ store'.refreshToken = req[r].new
                       /\ req'[r].pc = "reqGet" /\ req'[r].att = 2
                       /\ req'[r].nResend = 1)
            /\ (req[r].pc \in {"setAccess", "setRefresh"}
                    /\ req'[r].cause = "storeFail")
                   => (req'[r].pc = "delAccess" /\ req'[r].nResend = 0
                       /\ store' = store)]_vars

\* C17 witness: the replay has just been issued, after both writes.
C17_Witness ==
    \E r \in AllReqs :
        /\ req[r].pc = "reqGet" /\ req[r].att = 2 /\ req[r].nResend = 1
        /\ req[r].solo /\ req[r].new = 2 /\ store = PairOf(2)
        /\ req[r].hdr = Bearer(2)

\* C18: whatever answers the replay, the call ends in that step with the
\* replay's own response or error and without touching the store; for a
\* request running alone the store still holds the refreshed pair.
C18_ResendFailureKeepsTokens ==
    [][\A r \in AllReqs :
        (req[r].pc = "inflight" /\ req[r].att = 2 /\ req'[r].pc # "inflight") =>
            /\ req'[r].pc = "done"
            /\ req'[r].result.att = 2
            /\ req'[r].result.kind \in Outcomes
            /\ req'[r].result = req'[r].resp
            /\ store' = store
            /\ req[r].solo => store' = PairOf(req[r].new)]_vars

\* C18 witness: the replay failed without a response, the caller got that
\* error and the refreshed pair is still stored.
C18_Witness ==
    \E r \in AllReqs :
        /\ req[r].pc = "done" /\ req[r].result = [kind |-> "eNet", att |-> 2]
        /\ req[r].cause = "refreshOk"
        /\ store = PairOf(2)
        /\ \A q \in AllReqs \ {r} : req[q].pc = "idle"

\* Network calls made for request r: the original send, the refresh calls
\* and the replays.
NetworkCalls(r) ==
    (IF req[r].pc = "idle" THEN 0 ELSE 1) + req[r].nRefresh + req[r].nResend

\* C19: every request that was issued settles its caller's promise, after at
\* most three network calls, and nothing happens for it afterwards.
C19_Terminates ==
    /\ [](\A r \in LiveReqs : NetworkCalls(r) <= 3)
    /\ [][\A r \in LiveReqs : req[r].pc = "done" => req'[r] = req[r]]_vars
    /\ \A r \in LiveReqs :
          (req[r].pc # "idle") ~>
              (req[r].pc = "done" /\ req[r].result.kind # "pending")

\* C19 witness: a call that needed all three network calls has ended.
C19_Witness ==
    \E r \in LiveReqs :
        /\ req[r].pc = "done" /\ NetworkCalls(r) = 3
        /\ req[r].result = [kind |-> "ok", att |-> 2]

\* A step of logout(): its call or the return of one of its deletes.
LogoutStep ==
    /\ auth'.pc # auth.pc
    /\ auth.pc \in {"logoutDelA", "logoutDelR"} \/ auth'.pc = "logoutDelA"

\* C20: logout does not cancel a request: no step of logout moves a request
\* or changes its refresh token, its refreshed pair or its header, and while
\* logout runs and after it a request in its refresh path can still call
\* the endpoint and write both tokens.
C20_LogoutDoesNotCancel ==
    /\ [][LogoutStep =>
            \A r \in AllReqs :
                /\ req'[r].pc = req[r].pc
                /\ req'[r].rt = req[r].rt /\ req'[r].new = req[r].new
                /\ req'[r].hdr = req[r].hdr /\ req'[r].retry = req[r].retry
                /\ req'[r].result = req[r].result]_vars
    /\ [](\A r \in AllReqs :
            (auth.pc \in {"logoutDelA", "logoutDelR"} \/ auth.last = "logoutOk") =>
                /\ req[r].pc = "refreshCall" =>
                       \A p \in Tokens : ENABLED RefreshCall(r, p)
                /\ req[r].pc = "setAccess" => ENABLED SetAccess(r, TRUE)
                /\ req[r].pc = "setRefresh" => ENABLED SetRefresh(r, TRUE))

\* C20 witness: logout has completed and isAuthenticated is false, yet the
\* store holds the pair a request refreshed across the logout, and that
\* request's replay is under way.
C20_Witness ==
    /\ auth.pc = "idle" /\ auth.last = "logoutOk" /\ ~auth.isAuthenticated
    /\ \E r \in AllReqs :
          /\ req[r].att = 2 /\ req[r].cause = "refreshOk"
          /\ req[r].new \in Tokens
          /\ store = PairOf(req[r].new)

\* C21: the deletes of a failed refresh are unconditional: the endpoint may
\* reject the token of any refresh call, the deletes of the catch block wait
\* for nothing and remove whatever the store holds, also the pair another
\* request has persisted meanwhile; the first delete leaves accessToken
\* absent, the second leaves refreshToken absent, and neither touches the
\* other key.
C21_FailureWipesOtherRefresh ==
    /\ [](\A r \in AllReqs :
            /\ req[r].pc = "refreshCall" => ENABLED RefreshCall(r, None)
            /\ req[r].pc = "delAccess" => ENABLED DelAccess(r, TRUE)
            /\ req[r].pc = "delRefresh" => ENABLED DelRefresh(r, TRUE))
    /\ [][\A r \in AllReqs :
            /\ (req[r].pc = "refreshCall" /\ req'[r].cause = "endpointFail")
                   => (req'[r].pc = "delAccess" /\ store' = store)
            /\ (req[r].pc = "delAccess" /\ req'[r].pc = "delRefresh")
                   => (/\ store'.accessToken = None
                       /\ store'.refreshToken = store.refreshToken)
            /\ (req[r].pc = "delRefresh" /\ Completes(r)
                    /\ req'[r].result # StoreError)
                   => (/\ store'.refreshToken = None
                       /\ store'.accessToken = store.accessToken
                       /\ req'[r].result = Orig401)]_vars

\* C21 witness: both requests read R1; the first was issued (A2, R2), wrote
\* both tokens and is replaying; the second was rejected by the endpoint and
\* its first delete has removed A2; its second delete is about to remove R2.
C21_Witness ==
    \E r1, r2 \in AllReqs :
        /\ r1 # r2
        /\ req[r1].rt = 1 /\ req[r1].new = 2 /\ req[r1].cause = "refreshOk"
        /\ req[r1].att = 2 /\ req[r1].nResend = 1
        /\ req[r2].rt = 1 /\ req[r2].cause = "endpointFail"
        /\ req[r2].pc = "delRefresh" /\ req[r2].nRefresh = 1
        /\ store = [accessToken |-> None, refreshToken |-> 2]

\* C21 witness, final state: the second request has ended with its original
\* 401 and the store is empty while the first request, issued (A2, R2) for
\* R1, is still replaying with Bearer A2.
C21_WipedState ==
    \E r1, r2 \in AllReqs :
        /\ r1 # r2
        /\ req[r1].rt = 1 /\ req[r1].new = 2 /\ req[r1].cause = "refreshOk"
        /\ req[r1].att = 2 /\ req[r1].hdr = Bearer(2)
        /\ req[r2].pc = "done" /\ req[r2].cause = "endpointFail"
        /\ req[r2].result = Orig401 /\ req[r2].nResend = 0
        /\ store = Empty

\* C22: the refresh call is made outside the intercepted client: while it is
\* in flight it carries the refresh token this request read and no
\* Authorization header, whatever the store holds; its answer is handled by
\* the awaiting code alone, so a success goes on to the writes and a failure
\* goes to the catch block, and after a failure the request never reads the
\* refresh token again, makes no second refresh call and no replay.
C22_RefreshBypassesPipeline ==
    /\ [](\A r \in AllReqs :
            /\ req[r].pc = "refreshCall" =>
                   /\ req[r].post.hdr = NoHeader
                   /\ req[r].post.body = req[r].rt /\ req[r].rt \in Tokens
            /\ req[r].cause = "endpointFail" =>
                   /\ req[r].pc \in {"delAccess", "delRefresh", "done"}
                   /\ req[r].nRefresh = 1 /\ req[r].nResend = 0
                   /\ req[r].retry)
    /\ [][\A r \in AllReqs :
            /\ (req[r].pc = "refreshCall" /\ req'[r].pc # "refreshCall") =>
                   /\ req'[r].pc \in {"setAccess", "delAccess"}
                   /\ req'[r].nRefresh = 1
                   /\ req'[r].hdr = req[r].hdr
                   /\ store' = store
            /\ req[r].pc = "refreshCall" => req'[r].post = req[r].post]_vars

\* C22 witness: the refresh call is in flight with R1 and no Authorization
\* header while the store holds the access token A2 another request wrote.
C22_Witness ==
    \E r \in AllReqs :
        /\ req[r].pc = "refreshCall" /\ req[r].rt = 1
        /\ req[r].post = [hdr |-> NoHeader, body |-> 1]
        /\ store.accessToken = 2

\* C22 witness of the failure case: the refresh call failed, the call ended
\* with the original 401 after that single refresh call and no replay.
C22_FailedOnce ==
    \E r \in AllReqs :
        /\ req[r].pc = "done" /\ req[r].cause = "endpointFail"
        /\ req[r].result = Orig401
        /\ req[r].nRefresh = 1 /\ req[r].nResend = 0

\* C23: the request interceptor never fails a request: when its read of the
\* access token returns or throws, the request goes to the transport, the
\* caller's promise is not settled and the store is unchanged; when the read
\* threw, the headers are as they were (nothing is attached), so an original
\* send whose read threw is in flight with no Authorization header.
C23_ReadFailureSwallowed ==
    /\ [][\A r \in AllReqs :
            (req[r].pc = "reqGet" /\ req'[r].pc # "reqGet") =>
                /\ req'[r].pc = "inflight"
                /\ req'[r].att = req[r].att
                /\ req'[r].result = req[r].result
                /\ store' = store
                /\ req'[r].seen \in {Threw, store.accessToken}
                /\ req'[r].seen = Threw => req'[r].hdr = req[r].hdr]_vars
    /\ [](\A r \in AllReqs :
            /\ req[r].pc = "reqGet" => ENABLED RequestInterceptor(r, FALSE)
            /\ (req[r].pc = "inflight" /\ req[r].seen = Threw /\ req[r].att = 1)
                   => (req[r].hdr = NoHeader /\ req[r].result = Pending))

\* C23 witness: the store holds (A1, R1), the read threw, and the original
\* send is in flight with no Authorization header.
C23_Witness ==
    \E r \in AllReqs :
        /\ req[r].pc = "inflight" /\ req[r].att = 1 /\ req[r].seen = Threw
        /\ req[r].hdr = NoHeader /\ req[r].result = Pending
        /\ store = PairOf(1)

\* C24: the login and signup calls are requests of the api client like any
\* other. While such a call runs over a store that was empty when the form
\* was submitted, the store stays empty, no refresh call and no replay is
\* made, isAuthenticated is false and the screen is loading. When the call
\* was answered with 401, onSubmit ends in the step after the rejection: the
\* context's login() is not called, the provider and the store are
\* untouched, and the screen's loading flag is false again.
C24_FailedAttemptLeavesSession ==
    /\ [](screen.pc = "service" =>
            /\ screen.loading /\ ~screen.called
            /\ screen.n \in FormReqs /\ req[screen.n].pc # "idle"
            /\ ~auth.isAuthenticated /\ auth.pc = "idle"
            /\ (req[screen.n].pc = "done" /\ req[screen.n].result.kind # "ok")
                   => ENABLED ServiceRejected
            /\ screen.empty =>
                   /\ store = Empty
                   /\ req[screen.n].nRefresh = 0 /\ req[screen.n].nResend = 0
                   /\ req[screen.n].pc \notin {"refreshCall", "setAccess",
                                               "setRefresh"})
    /\ [][(/\ screen.pc = "service" /\ screen'.pc # "service"
           /\ screen.empty /\ req[screen.n].resp = Orig401) =>
            /\ req'[screen.n].nRefresh = 0 /\ req'[screen.n].nResend = 0
            /\ store = Empty /\ store' = Empty
            /\ screen'.pc = "form" /\ ~screen'.called /\ ~screen'.loading
            /\ auth' = auth /\ ~auth'.isAuthenticated]_vars
    /\ [](\A r \in FormReqs : req[r].pc # "idle" => screen.n >= r)

\* C24 witness: the store was empty, the login call got 401, no refresh
\* token was found, and onSubmit has ended: loading is false, login() was
\* not called, isAuthenticated is false and the store is empty.
C24_Witness ==
    /\ screen.pc = "form" /\ screen.form = "login" /\ screen.n > 0
    /\ screen.empty /\ ~screen.loading /\ ~screen.called
    /\ req[screen.n].pc = "done" /\ req[screen.n].result = Orig401
    /\ req[screen.n].cause = "noToken"
    /\ req[screen.n].nRefresh = 0 /\ req[screen.n].nResend = 0
    /\ store = Empty /\ ~auth.isAuthenticated /\ auth.last = "loadOk"

\* C24 witness for the signup screen.
C24_SignupWitness ==
    /\ screen.pc = "form" /\ screen.form = "signup" /\ screen.n > 0
    /\ screen.empty /\ ~screen.loading /\ ~screen.called
    /\ req[screen.n].pc = "done" /\ req[screen.n].result = Orig401
    /\ store = Empty /\ ~auth.isAuthenticated

\* The same screens over a store that was not empty: the 401 of a login
\* call starts a refresh with the stored refresh token.
C24_LoginCallRefreshes ==
    /\ screen.pc = "service" /\ ~screen.empty
    /\ req[screen.n].pc = "refreshCall" /\ req[screen.n].rt = 1

====
